---- MODULE Spec2Model ----
(***************************************************************************)
(* Model of analyze_csv_data.py (Dynamic Pricing CSV analysis script).     *)
(*                                                                         *)
(* Units.  Prices are integers in cents, demand scores integers in tenths, *)
(* change_pct is an integer in hundredths of a percent, days_of_stock an   *)
(* integer in tenths of a day.  Intermediate values (products, quotients,  *)
(* means) are exact rationals [n, d] in lowest terms with d > 0; Python's  *)
(* round(x, 2) is round-half-to-even on that exact value.  The binary      *)
(* representation error of float64 is not modelled.                        *)
(* A missing (NaN) cell is the empty sequence <<>>, a present cell <<v>>.  *)
(* current_price is positive in every input of the pricing specification.  *)
(***************************************************************************)
EXTENDS Integers, Sequences, FiniteSets, TLC

VARIABLES
    pc,                 \* position in the function (or in main) being run
    products,           \* data['products']
    inventory,          \* data['inventory']
    demand_metrics,     \* data['demand_metrics']
    competitor_prices,  \* data['competitor_prices']
    reco,               \* the merged frame iterated by pricing_recommendations
    idx,                \* 1-based position of iterrows() in reco
    action,             \* loop local `action`
    reason,             \* loop local `reason`
    recommended_price,  \* loop local `recommended_price` (unrounded)
    recommendations,    \* the list `recommendations`
    reco_df,            \* the sorted frame that is printed
    files,              \* names of the tables whose CSV file exists
    data,               \* keys of the dict returned by load_data
    ran,                \* report sections that ran to completion, in order
    complete,           \* "ANALYSIS COMPLETE" was printed
    caught,             \* main's except clause ran
    ia_in,              \* inventory_alerts: the cells of one product
    cc_in,              \* competitor_comparison: the cells of one product
    days_of_stock,      \* inventory_alerts: derived column
    price_gap_pct,      \* competitor_comparison: derived column
    position            \* competitor_comparison: derived column

recoVars == <<products, inventory, demand_metrics, competitor_prices, reco, idx,
              action, reason, recommended_price, recommendations, reco_df>>
mainVars == <<files, data, ran, complete, caught>>
ratioVars == <<ia_in, cc_in, days_of_stock, price_gap_pct, position>>
vars == <<pc, recoVars, mainVars, ratioVars>>

----------------------------------------------------------------------------
(* Bounds of the model *)

MaxComp == 2        \* competitor observations of one product
MaxProducts == 3    \* rows of the products table

----------------------------------------------------------------------------
(* Exact rational arithmetic *)

Abs(x) == IF x < 0 THEN -x ELSE x

RECURSIVE Gcd(_, _)
Gcd(a, b) == IF b = 0 THEN a ELSE Gcd(b, a % b)

Norm(n, d) ==
    LET g == Gcd(Abs(n), d) IN [n |-> n \div g, d |-> d \div g]

R(x) == [n |-> x, d |-> 1]
\* a * (p / q) for integers p >= 0 and q > 0, cancelling before multiplying
RMul(a, p, q) ==
    LET g1 == Gcd(p, a.d)
        g2 == Gcd(Abs(a.n), q)
    IN  Norm((a.n \div g2) * (p \div g1), (a.d \div g1) * (q \div g2))
RSub(a, b) == Norm(a.n * b.d - b.n * a.d, a.d * b.d)
RLt(a, b) == a.n * b.d < b.n * a.d
RMin(a, b) == IF RLt(b, a) THEN b ELSE a
RMax(a, b) == IF RLt(a, b) THEN b ELSE a

\* round-half-to-even of a rational to an integer
RoundHalfEven(a) ==
    LET q == a.n \div a.d
        r == a.n % a.d
    IN  IF 2 * r < a.d THEN q
        ELSE IF 2 * r > a.d THEN q + 1
        ELSE IF q % 2 = 0 THEN q ELSE q + 1

\* comparisons on a possibly missing cell: every comparison with NaN is False
Gt(cell, c) == cell # <<>> /\ cell[1] > c
Lt(cell, c) == cell # <<>> /\ cell[1] < c

----------------------------------------------------------------------------
(* pricing_recommendations: the join stage *)

Max(S) == CHOOSE x \in S : \A y \in S : y <= x
Min(S) == CHOOSE x \in S : \A y \in S : x <= y

RECURSIVE Ascending(_)
Ascending(S) == IF S = {} THEN <<>> ELSE <<Min(S)>> \o Ascending(S \ {Min(S)})

RECURSIVE Sum(_)
Sum(s) == IF s = <<>> THEN 0 ELSE Head(s) + Sum(Tail(s))

\* the snapshots of every product's own last date
LatestDemandPerProduct(demand) ==
    SelectSeq(demand, LAMBDA r :
        \A i \in 1..Len(demand) :
            demand[i].product_id = r.product_id => demand[i].date <= r.date)

\* demand[demand['date'] == demand['date'].max()]
LatestDemand(demand) ==
    IF demand = <<>> THEN <<>>
    ELSE LET latest == Max({demand[i].date : i \in 1..Len(demand)})
         IN  SelectSeq(demand, LAMBDA r : r.date = latest)

\* comp_prices.groupby('product_id')['competitor_price'].mean().reset_index()
AvgComp(comp) ==
    LET keys == Ascending({comp[i].product_id : i \in 1..Len(comp)})
        Group(k) == SelectSeq(comp, LAMBDA r : r.product_id = k)
        Prices(k) == [i \in 1..Len(Group(k)) |-> Group(k)[i].competitor_price]
    IN  [j \in 1..Len(keys) |->
            [product_id |-> keys[j],
             avg_competitor_price |-> Norm(Sum(Prices(keys[j])), Len(Group(keys[j])))]]

\* left.merge(right, on='product_id', how='left'): every left row, in order, once
\* per right row of the same key, or once with no right row when there is none;
\* a pair [l, r] holds the left row and <<the right row>> or <<>>
Merge(left, right) ==
    LET Rows(l) ==
            LET m == SelectSeq(right, LAMBDA r : r.product_id = l.product_id)
            IN  IF m = <<>> THEN <<[l |-> l, r |-> <<>>]>>
                ELSE [i \in 1..Len(m) |-> [l |-> l, r |-> <<m[i]>>]]
        F[i \in 0..Len(left)] == IF i = 0 THEN <<>> ELSE F[i - 1] \o Rows(left[i])
    IN  F[Len(left)]

Cells(l, q, s, d, a) ==
    [product_id |-> l.product_id, product_name |-> l.product_name,
     current_price |-> l.current_price, min_price |-> l.min_price,
     max_price |-> l.max_price,
     quantity_available |-> q, stock_status |-> s, demand_score |-> d,
     avg_competitor_price |-> a]

\* the three merges of pricing_recommendations; an unmatched row has missing cells
MergeAll(prods, inv, demand, comp) ==
    LET p1 == Merge(prods, inv)
        m1 == [i \in 1..Len(p1) |->
                 IF p1[i].r = <<>> THEN Cells(p1[i].l, <<>>, <<>>, <<>>, <<>>)
                 ELSE Cells(p1[i].l, <<p1[i].r[1].quantity_available>>,
                            <<p1[i].r[1].stock_status>>, <<>>, <<>>)]
        p2 == Merge(m1, LatestDemand(demand))
        m2 == [i \in 1..Len(p2) |->
                 IF p2[i].r = <<>> THEN p2[i].l
                 ELSE Cells(p2[i].l, p2[i].l.quantity_available, p2[i].l.stock_status,
                            <<p2[i].r[1].demand_score>>, <<>>)]
        p3 == Merge(m2, AvgComp(comp))
    IN  [i \in 1..Len(p3) |->
           IF p3[i].r = <<>> THEN p3[i].l
           ELSE Cells(p3[i].l, p3[i].l.quantity_available, p3[i].l.stock_status,
                      p3[i].l.demand_score, <<p3[i].r[1].avg_competitor_price>>)]

----------------------------------------------------------------------------
(* pricing_recommendations: the rules *)

Rule1(row) == Gt(row.demand_score, 75) /\ Gt(row.quantity_available, 50)
Rule2(row) == Lt(row.demand_score, 50) /\ Gt(row.quantity_available, 100)
Rule3(row) ==
    /\ row.avg_competitor_price # <<>>
    /\ RLt(RMul(row.avg_competitor_price[1], 105, 100), R(row.current_price))
Rule4(row) == row.stock_status = <<"low_stock">> /\ Gt(row.demand_score, 60)

Price1Unclamped(row) == RMul(R(row.current_price), 105, 100)
Price1(row) == RMin(RMul(R(row.current_price), 105, 100), R(row.max_price))

Price2Unclamped(row) == RMul(R(row.current_price), 92, 100)
Price2WrongBound(row) == RMax(RMul(R(row.current_price), 92, 100), R(row.max_price))
Price2(row) == RMax(RMul(R(row.current_price), 92, 100), R(row.min_price))

Price3(row) == RMax(RMul(row.avg_competitor_price[1], 98, 100), R(row.min_price))
Price4(row) == RMin(RMul(R(row.current_price), 108, 100), R(row.max_price))

\* the branch taken as if the competitor test came first
BranchCompetitorFirst(row) ==
    IF Rule3(row) THEN 3
    ELSE IF Rule1(row) THEN 1
    ELSE IF Rule2(row) THEN 2
    ELSE IF Rule4(row) THEN 4
    ELSE 0

\* the branch of the if / elif chain that is taken; 0 when none is
Branch(row) ==
    IF Rule1(row) THEN 1
    ELSE IF Rule2(row) THEN 2
    ELSE IF Rule3(row) THEN 3
    ELSE IF Rule4(row) THEN 4
    ELSE 0

\* the loop locals at the end of one iteration
Locals(row) ==
    LET b == Branch(row) IN
    IF b = 1 THEN [action |-> "INCREASE", reason |-> "High demand with adequate stock",
                   recommended_price |-> Price1(row)]
    ELSE IF b = 2 THEN [action |-> "DECREASE", reason |-> "Low demand with excess inventory",
                        recommended_price |-> Price2(row)]
    ELSE IF b = 3 THEN [action |-> "DECREASE", reason |-> "Price above competitors",
                        recommended_price |-> Price3(row)]
    ELSE IF b = 4 THEN [action |-> "INCREASE", reason |-> "Low stock with sustained demand",
                        recommended_price |-> Price4(row)]
    ELSE [action |-> "None", reason |-> "None",
          recommended_price |-> R(row.current_price)]

\* round((recommended_price - current_price) / current_price * 100, 2)
ChangePct(price, current) ==
    RoundHalfEven(RMul(RMul(RSub(price, R(current)), 1, current), 10000, 1))

\* the dict appended to `recommendations`
Recommendation(row, loc) ==
    [product_name |-> row.product_name,
     current_price |-> row.current_price,
     recommended_price |-> RoundHalfEven(loc.recommended_price),
     action |-> loc.action,
     change_pct |-> ChangePct(loc.recommended_price, row.current_price),
     reason |-> loc.reason]

----------------------------------------------------------------------------
(* pricing_recommendations: the output order *)

RECURSIVE InsertAscending(_, _)
InsertAscending(r, s) ==
    IF s = <<>> THEN <<r>>
    ELSE IF Head(s).change_pct <= r.change_pct THEN <<Head(s)>> \o InsertAscending(r, Tail(s))
    ELSE <<r>> \o s

RECURSIVE SortAscending(_)
SortAscending(recs) ==
    IF recs = <<>> THEN <<>> ELSE InsertAscending(Head(recs), SortAscending(Tail(recs)))

RECURSIVE InsertDescending(_, _)
InsertDescending(r, s) ==
    IF s = <<>> THEN <<r>>
    ELSE IF Head(s).change_pct >= r.change_pct THEN <<Head(s)>> \o InsertDescending(r, Tail(s))
    ELSE <<r>> \o s

\* reco_df.sort_values('change_pct', ascending=False), one of its results
RECURSIVE SortValues(_)
SortValues(recs) ==
    IF recs = <<>> THEN <<>> ELSE InsertDescending(Head(recs), SortValues(Tail(recs)))

Keys(recs) == [i \in 1..Len(recs) |-> recs[i].change_pct]

\* every result the sort may give: it does not fix the order of equal keys
SortResults(recs) ==
    LET n == Len(recs)
        perms == {f \in [1..n -> 1..n] : \A i, j \in 1..n : f[i] = f[j] => i = j}
    IN  {s \in {[i \in 1..n |-> recs[f[i]]] : f \in perms} :
            Keys(s) = Keys(SortValues(recs))}

----------------------------------------------------------------------------
(* Input tables of the pricing specification *)

PriceVals == {4000, 5000, 10000, 10001, 12000}
QtyVals == {50, 60, 100, 150}
ScoreVals == {40, 50, 60, 61, 75, 80}
CompVals == {4001, 5000}

Product(id, cur, mn, mx) ==
    [product_id |-> id, product_name |-> id, current_price |-> cur,
     min_price |-> mn, max_price |-> mx]
InventoryRow(id, q, s) ==
    [product_id |-> id, quantity_available |-> q, stock_status |-> s]
DemandRow(id, d, s) == [product_id |-> id, date |-> d, demand_score |-> s]
CompRow(id, p) == [product_id |-> id, competitor_price |-> p]

SeqsUpTo(S, n) == UNION {[1..k -> S] : k \in 0..n}

\* one product, every combination of its cells; its demand snapshot is absent,
\* on the latest date, or older than the latest date of the table
OneProductTables ==
    {[products |-> <<Product(1, c, mn, mx)>>, inventory |-> inv,
      demand_metrics |-> dem, competitor_prices |-> comp] :
        c \in PriceVals, mn \in PriceVals, mx \in PriceVals,
        inv \in {<<>>} \cup {<<InventoryRow(1, q, st)>> :
                                q \in QtyVals, st \in {"in_stock", "low_stock"}},
        dem \in {<<>>} \cup {<<DemandRow(1, 2, sc)>> : sc \in ScoreVals}
                       \cup {<<DemandRow(1, 1, sc), DemandRow(2, 2, 80)>> : sc \in {40, 80}},
        comp \in SeqsUpTo({CompRow(1, p) : p \in CompVals}, MaxComp)}

InventoryChoices == {<<60, "in_stock">>, <<150, "in_stock">>, <<10, "low_stock">>}
DemandChoices == {<<1, 80>>, <<2, 40>>, <<2, 80>>}

\* several products with the same prices, one inventory row and one snapshot each
ManyProductTables ==
    UNION {
      {[products |-> [i \in 1..n |-> Product(i, 10000, 9700, 12000)],
        inventory |-> [i \in 1..n |-> InventoryRow(i, inv[i][1], inv[i][2])],
        demand_metrics |-> [i \in 1..n |-> DemandRow(i, dem[i][1], dem[i][2])],
        competitor_prices |-> <<>>] :
          inv \in [1..n -> InventoryChoices], dem \in [1..n -> DemandChoices]}
      : n \in 2..MaxProducts}

\* one product with two inventory rows and one or two snapshots on the same date
RepeatedKeyTables ==
    {[products |-> <<Product(1, 10000, 9700, 12000)>>,
      inventory |-> <<InventoryRow(1, a[1], a[2]), InventoryRow(1, b[1], b[2])>>,
      demand_metrics |-> dem, competitor_prices |-> <<>>] :
        a \in InventoryChoices, b \in InventoryChoices,
        dem \in {[i \in 1..k |-> DemandRow(1, 2, f[i])] :
                    k \in 1..2, f \in [1..2 -> {40, 80}]}}

MainIdle ==
    /\ files = {} /\ data = {} /\ ran = <<>>
    /\ complete = FALSE /\ caught = FALSE
Unset == [kind |-> "unset", val |-> R(0)]
RatioIdle ==
    /\ ia_in = [quantity_available |-> <<>>, purchase_count |-> <<>>]
    /\ cc_in = [current_price |-> 0, competitor_price |-> <<>>]
    /\ days_of_stock = Unset /\ price_gap_pct = Unset /\ position = "unset"
RecoIdle ==
    /\ products = <<>> /\ inventory = <<>> /\ demand_metrics = <<>>
    /\ competitor_prices = <<>> /\ reco = <<>> /\ idx = 0
    /\ action = "None" /\ reason = "None" /\ recommended_price = R(0)
    /\ recommendations = <<>> /\ reco_df = <<>>

\* the state on entry of pricing_recommendations(data)
Init ==
    /\ pc = "merge"
    /\ \E t \in OneProductTables \cup ManyProductTables \cup RepeatedKeyTables :
        /\ products = t.products
        /\ inventory = t.inventory
        /\ demand_metrics = t.demand_metrics
        /\ competitor_prices = t.competitor_prices
    /\ reco = <<>> /\ idx = 0
    /\ action = "None" /\ reason = "None" /\ recommended_price = R(0)
    /\ recommendations = <<>> /\ reco_df = <<>>
    /\ MainIdle /\ RatioIdle

----------------------------------------------------------------------------
(* pricing_recommendations: the steps *)

tables == <<products, inventory, demand_metrics, competitor_prices>>

\* lines 240-260: latest demand, competitor averages, the three merges
MergeTables ==
    /\ pc = "merge"
    /\ reco' = MergeAll(products, inventory, demand_metrics, competitor_prices)
    /\ idx' = 1
    /\ recommendations' = <<>>
    /\ pc' = IF reco' = <<>> THEN "render" ELSE "loop"
    /\ UNCHANGED <<tables, action, reason, recommended_price, reco_df>>
    /\ UNCHANGED <<mainVars, ratioVars>>

\* lines 262-300: one iteration of `for _, row in reco.iterrows()`
EvaluateRow ==
    /\ pc = "loop"
    /\ LET row == reco[idx]
           loc == Locals(row)
       IN  /\ action' = loc.action
           /\ reason' = loc.reason
           /\ recommended_price' = loc.recommended_price
           /\ recommendations' =
                IF loc.action # "None"
                THEN Append(recommendations, Recommendation(row, loc))
                ELSE recommendations
    /\ idx' = idx + 1
    /\ pc' = IF idx = Len(reco) THEN "render" ELSE "loop"
    /\ UNCHANGED <<tables, reco, reco_df>>
    /\ UNCHANGED <<mainVars, ratioVars>>

\* lines 302-307: sort by change_pct, descending, and print
SortAndPrint ==
    /\ pc = "render"
    /\ reco_df' \in SortResults(recommendations)
    /\ pc' = "done"
    /\ UNCHANGED <<tables, reco, idx, action, reason, recommended_price, recommendations>>
    /\ UNCHANGED <<mainVars, ratioVars>>

Next == MergeTables \/ EvaluateRow \/ SortAndPrint

Spec == Init /\ [][Next]_vars

----------------------------------------------------------------------------
(* main and load_data *)

Tables ==
    {"categories", "products", "customers", "competitors", "inventory",
     "pricing_history", "competitor_prices", "demand_metrics", "pricing_rules",
     "orders", "order_items", "price_adjustments"}

\* the report functions in the order main calls them
Sections ==
    <<"product_pricing_overview", "competitor_comparison", "high_demand_products",
      "revenue_analysis", "inventory_alerts", "pricing_recommendations">>

\* the keys each report function looks up in `data` before it computes anything
Required(section) ==
    CASE section = "product_pricing_overview" -> {"products", "inventory", "demand_metrics"}
      [] section = "competitor_comparison" -> {"products", "competitor_prices", "competitors"}
      [] section = "high_demand_products" -> {"products", "demand_metrics", "inventory"}
      [] section = "revenue_analysis" -> {"products", "order_items"}
      [] section = "inventory_alerts" -> {"products", "inventory", "demand_metrics"}
      [] section = "pricing_recommendations" ->
            {"products", "inventory", "demand_metrics", "competitor_prices"}

\* the state on entry of main(): any set of CSV files may exist
InitMain ==
    /\ pc = "main"
    /\ files \in SUBSET Tables
    /\ data = {} /\ ran = <<>> /\ complete = FALSE /\ caught = FALSE
    /\ RecoIdle /\ RatioIdle

\* load_data(): a table is loaded when its file exists, and skipped otherwise
LoadData ==
    /\ pc = "main"
    /\ data' = {t \in Tables : t \in files}
    /\ pc' = "loaded"
    /\ UNCHANGED <<files, ran, complete, caught, recoVars, ratioVars>>

\* main, lines 321-326: return when nothing was loaded, else enter the try block
CheckData ==
    /\ pc = "loaded"
    /\ pc' = IF data = {} THEN "returned" ELSE "section1"
    /\ UNCHANGED <<mainVars, recoVars, ratioVars>>

At(k) ==
    CASE k = 1 -> "section1" [] k = 2 -> "section2" [] k = 3 -> "section3"
      [] k = 4 -> "section4" [] k = 5 -> "section5" [] k = 6 -> "section6"
      [] k = 7 -> "complete"

\* a report function that swallows its own lookup failure
SectionSwallowing(k) ==
    /\ pc = At(k)
    /\ ran' = IF Required(Sections[k]) \subseteq data THEN Append(ran, Sections[k]) ELSE ran
    /\ pc' = At(k + 1)
    /\ UNCHANGED <<files, data, complete, caught, recoVars, ratioVars>>

\* the k-th call of the try block: the function runs to its end when every key
\* it looks up is in `data`, and raises KeyError at the lookup otherwise
Section(k) ==
    /\ pc = At(k)
    /\ IF Required(Sections[k]) \subseteq data
       THEN ran' = Append(ran, Sections[k]) /\ pc' = At(k + 1)
       ELSE ran' = ran /\ pc' = "except"
    /\ UNCHANGED <<files, data, complete, caught, recoVars, ratioVars>>

RunProductPricingOverview == Section(1)
RunCompetitorComparison == Section(2)
RunHighDemandProducts == Section(3)
RunRevenueAnalysis == Section(4)
RunInventoryAlerts == Section(5)
RunPricingRecommendations == Section(6)

\* main, lines 334-336
AnalysisComplete ==
    /\ pc = "complete"
    /\ complete' = TRUE
    /\ pc' = "returned"
    /\ UNCHANGED <<files, data, ran, caught, recoVars, ratioVars>>

\* main, lines 338-341: print the error and the traceback, then fall off the end
ExceptHandler ==
    /\ pc = "except"
    /\ caught' = TRUE
    /\ pc' = "returned"
    /\ UNCHANGED <<files, data, ran, complete, recoVars, ratioVars>>

NextMain ==
    \/ LoadData
    \/ CheckData
    \/ RunProductPricingOverview
    \/ RunCompetitorComparison
    \/ RunHighDemandProducts
    \/ RunRevenueAnalysis
    \/ RunInventoryAlerts
    \/ RunPricingRecommendations
    \/ AnalysisComplete
    \/ ExceptHandler

SpecMain == InitMain /\ [][NextMain]_vars

----------------------------------------------------------------------------
(* inventory_alerts and competitor_comparison: the derived ratio columns *)

\* float64 values: a finite number, +inf, -inf or NaN
Finite(r) == [kind |-> "finite", val |-> r]
Inf == [kind |-> "inf", val |-> R(0)]
NegInf == [kind |-> "-inf", val |-> R(0)]
NaN == [kind |-> "nan", val |-> R(0)]

\* Series / Series: division by zero gives +-inf or NaN and raises nothing
Divide(a, b) ==
    IF a.kind # "finite" \/ b.kind # "finite" THEN NaN
    ELSE IF b.val.n = 0
         THEN IF a.val.n > 0 THEN Inf ELSE IF a.val.n < 0 THEN NegInf ELSE NaN
    ELSE IF b.val.n > 0 THEN Finite(Norm(a.val.n * b.val.d, a.val.d * b.val.n))
    ELSE Finite(Norm(-(a.val.n * b.val.d), a.val.d * (-b.val.n)))

Subtract(a, b) ==
    IF a.kind # "finite" \/ b.kind # "finite" THEN NaN ELSE Finite(RSub(a.val, b.val))

Times100(a) == IF a.kind = "finite" THEN Finite(RMul(a.val, 100, 1)) ELSE a

\* Series.round(k) with scale = 10^k
Round(a, scale) ==
    IF a.kind = "finite" THEN Finite(Norm(RoundHalfEven(RMul(a.val, scale, 1)), scale)) ELSE a

\* Series.mean(): NaN for a product without rows
Mean(xs) == IF xs = <<>> THEN NaN ELSE Finite(Norm(Sum(xs), Len(xs)))

FillNa(a, v) == IF a.kind = "nan" THEN Finite(R(v)) ELSE a
ReplaceInf(a, v) == IF a.kind \in {"inf", "-inf"} THEN Finite(R(v)) ELSE a
Cell(c) == IF c = <<>> THEN NaN ELSE Finite(R(c[1]))

\* inventory_alerts, line 208: avg_daily_sales after the merge and fillna(0)
AvgDailySales(in) == FillNa(Mean(in.purchase_count), 0)

\* inventory_alerts, lines 211-213
DaysOfStock(in) ==
    Round(FillNa(ReplaceInf(Divide(FillNa(Cell(in.quantity_available), 0),
                                   AvgDailySales(in)), 999), 999), 10)

\* competitor_comparison, lines 79-87: the merged avg_competitor_price
AvgCompetitorPrice(in) == Mean(in.competitor_price)

\* competitor_comparison, lines 90-91
PriceGap(in) == Round(Subtract(Finite(R(in.current_price)), AvgCompetitorPrice(in)), 100)

\* competitor_comparison, lines 92-93
PriceGapPct(in) == Round(Times100(Divide(PriceGap(in), AvgCompetitorPrice(in))), 100)

\* competitor_comparison, lines 94-96: every comparison with NaN is False
Position(x) ==
    IF x.kind = "-inf" \/ (x.kind = "finite" /\ x.val.n < 0) THEN "Lower"
    ELSE IF x.kind = "inf" \/ (x.kind = "finite" /\ x.val.n > 0) THEN "Higher"
    ELSE "Equal"

StockVals == {-5, 0, 10, 60}
SalesVals == {0, 1, 3}
RatioPriceVals == {0, 5000, 10000}
RatioCompVals == {0, 4001, 5000}

\* the cells of one product on entry of the two report functions
InitRatio ==
    /\ pc = "competitor_comparison"
    /\ ia_in \in [quantity_available : {<<>>} \cup {<<q>> : q \in StockVals},
                  purchase_count : SeqsUpTo(SalesVals, 2)]
    /\ cc_in \in [current_price : RatioPriceVals,
                  competitor_price : SeqsUpTo(RatioCompVals, MaxComp)]
    /\ days_of_stock = Unset /\ price_gap_pct = Unset /\ position = "unset"
    /\ RecoIdle /\ MainIdle

CompetitorComparison ==
    /\ pc = "competitor_comparison"
    /\ price_gap_pct' = PriceGapPct(cc_in)
    /\ position' = Position(price_gap_pct')
    /\ pc' = "inventory_alerts"
    /\ UNCHANGED <<ia_in, cc_in, days_of_stock, recoVars, mainVars>>

InventoryAlerts ==
    /\ pc = "inventory_alerts"
    /\ days_of_stock' = DaysOfStock(ia_in)
    /\ pc' = "done"
    /\ UNCHANGED <<ia_in, cc_in, price_gap_pct, position, recoVars, mainVars>>

NextRatio == CompetitorComparison \/ InventoryAlerts

SpecRatio == InitRatio /\ [][NextRatio]_vars

----------------------------------------------------------------------------
(* Properties of pricing_recommendations, checked under Spec *)

\* some row has been evaluated; the loop locals and LastRow belong to it
Evaluated == pc \in {"loop", "render", "done"} /\ idx > 1
LastRow == reco[idx - 1]
LastRec == recommendations[Len(recommendations)]
Emitted == Evaluated /\ action # "None"

Known(cell) == cell # <<>>
HighDemandGoodStock(r) ==
    /\ Known(r.demand_score) /\ r.demand_score[1] > 75
    /\ Known(r.quantity_available) /\ r.quantity_available[1] > 50
LowDemandHighStock(r) ==
    /\ Known(r.demand_score) /\ r.demand_score[1] < 50
    /\ Known(r.quantity_available) /\ r.quantity_available[1] > 100
AboveCompetitors(r) ==
    /\ Known(r.avg_competitor_price)
    /\ 100 * r.current_price * r.avg_competitor_price[1].d
         > 105 * r.avg_competitor_price[1].n
LowStockSustainedDemand(r) ==
    /\ r.stock_status = <<"low_stock">>
    /\ Known(r.demand_score) /\ r.demand_score[1] > 60

IncreasedBy5(r) == RMin(Norm(105 * r.current_price, 100), R(r.max_price))
DecreasedBy8(r) == RMax(Norm(92 * r.current_price, 100), R(r.min_price))
MatchCompetitors(r) ==
    RMax(RMul(r.avg_competitor_price[1], 98, 100), R(r.min_price))
IncreasedBy8(r) == RMin(Norm(108 * r.current_price, 100), R(r.max_price))

Rec(r, act, why, price) ==
    [product_name |-> r.product_name, current_price |-> r.current_price,
     recommended_price |-> RoundHalfEven(price), action |-> act,
     change_pct |-> RoundHalfEven(RMul(RMul(RSub(price, R(r.current_price)),
                                            1, r.current_price), 10000, 1)),
     reason |-> why]

\* C1 (as claimed): every emitted recommendation has
\* min_price <= recommended_price <= max_price, whatever the product row.
C1_RecommendedPriceWithinBounds ==
    Emitted =>
        /\ LastRow.min_price <= LastRec.recommended_price
        /\ LastRec.recommended_price <= LastRow.max_price

\* what the first rule that holds, in the order 1, 2, 3, 4, emits for a row
FirstRuleRecs(r) ==
    IF HighDemandGoodStock(r)
        THEN <<Rec(r, "INCREASE", "High demand with adequate stock", IncreasedBy5(r))>>
    ELSE IF LowDemandHighStock(r)
        THEN <<Rec(r, "DECREASE", "Low demand with excess inventory", DecreasedBy8(r))>>
    ELSE IF AboveCompetitors(r)
        THEN <<Rec(r, "DECREASE", "Price above competitors", MatchCompetitors(r))>>
    ELSE IF LowStockSustainedDemand(r)
        THEN <<Rec(r, "INCREASE", "Low stock with sustained demand", IncreasedBy8(r))>>
    ELSE <<>>

RECURSIVE FirstRuleRecsUpTo(_)
FirstRuleRecsUpTo(k) ==
    IF k = 0 THEN <<>> ELSE FirstRuleRecsUpTo(k - 1) \o FirstRuleRecs(reco[k])

\* C2: the recommendations emitted for the rows evaluated so far are exactly
\* those of the first rule that holds for each row, in the order 1, 2, 3, 4,
\* and none for a row where no rule holds; a row matching rules 1 and 3 gets
\* rule 1's INCREASE.
C2_FirstMatchingRuleWins ==
    pc \in {"loop", "render", "done"} =>
        recommendations = FirstRuleRecsUpTo(idx - 1)

\* a row matching rules 1 and 3 got rule 1's INCREASE
C2_Witness ==
    /\ Evaluated
    /\ HighDemandGoodStock(LastRow) /\ AboveCompetitors(LastRow)
    /\ action = "INCREASE"
    /\ LastRec.reason = "High demand with adequate stock"
    /\ LastRec.recommended_price = RoundHalfEven(IncreasedBy5(LastRow))

\* the product has no snapshot on the latest date of the whole demand table
NoLatestSnapshot(id) ==
    \A i \in 1..Len(demand_metrics) :
        demand_metrics[i].product_id = id =>
            \E j \in 1..Len(demand_metrics) :
                demand_metrics[j].date > demand_metrics[i].date

\* C3 (as claimed): a product without a snapshot on the global latest date
\* yields no recommendation, whatever its other fields.
C3_NoSnapshotNoRecommendation ==
    (Evaluated /\ NoLatestSnapshot(LastRow.product_id)) => action = "None"

\* C3 (amended): such a product has no demand_score, so rules 1, 2 and 4 do
\* not fire; it gets rule 3's DECREASE exactly when its competitor average is
\* known and current_price > 1.05 * average, and nothing otherwise.
C3_NoSnapshotOnlyCompetitorRule ==
    (Evaluated /\ NoLatestSnapshot(LastRow.product_id)) =>
        /\ LastRow.demand_score = <<>>
        /\ IF AboveCompetitors(LastRow)
           THEN /\ action = "DECREASE"
                /\ LastRec = Rec(LastRow, "DECREASE", "Price above competitors",
                                 MatchCompetitors(LastRow))
           ELSE action = "None"

\* a product whose only snapshot is older than the latest date got rule 3's
\* recommendation
C3_Witness ==
    /\ Evaluated
    /\ NoLatestSnapshot(LastRow.product_id)
    /\ \E i \in 1..Len(demand_metrics) : demand_metrics[i].product_id = LastRow.product_id
    /\ action = "DECREASE"
    /\ LastRec.reason = "Price above competitors"

SignMatchesAction ==
    /\ action = "INCREASE" => LastRec.change_pct >= 0
    /\ action = "DECREASE" => LastRec.change_pct <= 0

\* C4 (as claimed): for every emitted recommendation INCREASE implies
\* change_pct >= 0 and DECREASE implies change_pct <= 0.
C4_ChangeSignMatchesAction == Emitted => SignMatchesAction

\* C4 (amended): the same, for products with
\* 0 < current_price and min_price <= current_price <= max_price.
C4_ChangeSignMatchesActionWithinBounds ==
    (/\ Emitted
     /\ 0 < LastRow.current_price
     /\ LastRow.min_price <= LastRow.current_price
     /\ LastRow.current_price <= LastRow.max_price) => SignMatchesAction

\* a product within its bounds got a DECREASE with a negative change
C4_Witness ==
    /\ Emitted
    /\ LastRow.min_price < LastRow.current_price
    /\ LastRow.current_price <= LastRow.max_price
    /\ action = "DECREASE"
    /\ LastRec.change_pct < 0

\* C5: a row with demand_score > 7.5 and quantity_available > 50 gets INCREASE
\* with recommended_price = min(current_price * 1.05, max_price), emitted
\* rounded to cents and never above max_price; 100.00 with max 120.00 gives
\* 105.00 and 5.0 percent.
C5_HighDemandIncrease ==
    (Evaluated /\ HighDemandGoodStock(LastRow)) =>
        /\ action = "INCREASE"
        /\ recommended_price = IncreasedBy5(LastRow)
        /\ LastRec.action = "INCREASE"
        /\ LastRec.product_name = LastRow.product_name
        /\ LastRec.recommended_price = RoundHalfEven(IncreasedBy5(LastRow))
        /\ LastRec.recommended_price <= LastRow.max_price
        /\ (LastRow.current_price = 10000 /\ LastRow.max_price = 12000) =>
                LastRec.recommended_price = 10500 /\ LastRec.change_pct = 500

C5_Witness ==
    /\ Evaluated
    /\ LastRow.current_price = 10000 /\ LastRow.max_price = 12000
    /\ LastRow.demand_score = <<80>> /\ LastRow.quantity_available = <<60>>
    /\ LastRec.action = "INCREASE"
    /\ LastRec.recommended_price = 10500 /\ LastRec.change_pct = 500

\* C6: a row with demand_score < 5 and quantity_available > 100 gets DECREASE
\* with recommended_price = max(current_price * 0.92, min_price), emitted
\* rounded to cents and never below min_price; 50.00 with min 40.00 gives
\* 46.00 and -8.0 percent.
C6_LowDemandDecrease ==
    (Evaluated /\ LowDemandHighStock(LastRow)) =>
        /\ action = "DECREASE"
        /\ recommended_price = DecreasedBy8(LastRow)
        /\ LastRec.action = "DECREASE"
        /\ LastRec.product_name = LastRow.product_name
        /\ LastRec.recommended_price = RoundHalfEven(DecreasedBy8(LastRow))
        /\ LastRec.recommended_price >= LastRow.min_price
        /\ (LastRow.current_price = 5000 /\ LastRow.min_price = 4000) =>
                LastRec.recommended_price = 4600 /\ LastRec.change_pct = -800

C6_Witness ==
    /\ Evaluated
    /\ LastRow.current_price = 5000 /\ LastRow.min_price = 4000
    /\ LastRow.demand_score = <<40>> /\ LastRow.quantity_available = <<150>>
    /\ LastRec.action = "DECREASE"
    /\ LastRec.recommended_price = 4600 /\ LastRec.change_pct = -800

IsPermutation(s, t) ==
    /\ Len(s) = Len(t)
    /\ \E f \in [1..Len(s) -> 1..Len(s)] :
        /\ \A i, j \in 1..Len(s) : f[i] = f[j] => i = j
        /\ \A i \in 1..Len(s) : s[i] = t[f[i]]

\* C7: the printed list is a permutation of the emitted recommendations in
\* which change_pct never increases from one record to the next;
\* [5.0, -3.0, 8.0] is printed as [8.0, 5.0, -3.0].
C7_SortedDescending ==
    pc = "done" =>
        /\ IsPermutation(reco_df, recommendations)
        /\ \A i \in 1..(Len(reco_df) - 1) :
                reco_df[i].change_pct >= reco_df[i + 1].change_pct
        /\ Keys(recommendations) = <<500, -300, 800>> =>
                Keys(reco_df) = <<800, 500, -300>>

C7_Witness ==
    /\ pc = "done"
    /\ Keys(recommendations) = <<500, -300, 800>>
    /\ Keys(reco_df) = <<800, 500, -300>>

\* C8 (as claimed): for any input tables the merged frame has exactly one row
\* per product, so a product gets at most one recommendation.
C8_OneJoinedRowPerProduct ==
    pc \in {"loop", "render", "done"} =>
        /\ Len(reco) = Len(products)
        /\ \A i \in 1..Len(reco) : reco[i].product_id = products[i].product_id
        /\ \A i, j \in 1..Len(recommendations) :
                recommendations[i].product_name = recommendations[j].product_name => i = j

----------------------------------------------------------------------------
(* Properties of main, checked under SpecMain *)

Missing == {k \in 1..6 : ~(Required(Sections[k]) \subseteq files)}

\* C9: the sections run in the fixed order; a section that looks up a table
\* that was not loaded stops the run: the error is caught by main's handler,
\* no later section runs, ANALYSIS COMPLETE is not printed, the sections run
\* before stay as they were, and main returns; load_data raises nothing for a
\* missing file and loads exactly the files that exist.
C9_MissingTableStopsRun ==
    /\ ran = SubSeq(Sections, 1, Len(ran))
    /\ pc # "main" => data = files
    /\ pc = "loaded" => ~caught
    /\ (pc = "except" \/ caught) =>
            /\ ~complete
            /\ Missing # {}
            /\ ran = SubSeq(Sections, 1, Min(Missing) - 1)
    /\ pc = "returned" =>
            IF files = {} THEN ran = <<>> /\ ~complete /\ ~caught
            ELSE IF Missing = {} THEN ran = Sections /\ complete /\ ~caught
            ELSE caught
    /\ ~(ENABLED NextMain) => pc = "returned"

\* three sections ran, the fourth failed, and main returned
C9_Witness ==
    /\ pc = "returned"
    /\ caught
    /\ Len(ran) = 3
    /\ ~complete

----------------------------------------------------------------------------
(* Properties of the ratio columns, checked under SpecRatio *)

\* C10 (as claimed): a ratio whose divisor is zero is replaced by a sentinel:
\* days_of_stock is 999 when avg_daily_sales is zero, and price_gap_pct is a
\* finite sentinel when avg_competitor_price is zero.
C10_ZeroDivisorGivesSentinel ==
    /\ (pc = "done" /\ AvgDailySales(ia_in) = Finite(R(0))) =>
            days_of_stock = Finite(R(999))
    /\ (pc # "competitor_comparison" /\ AvgCompetitorPrice(cc_in) = Finite(R(0))) =>
            price_gap_pct.kind = "finite"

====
